---- MODULE Spec2Model ----
(***************************************************************************)
(* xcargo: the build cache (src/cache/mod.rs) with its persisted file and  *)
(* the fingerprints (src/cache/hash.rs), and the build orchestrator        *)
(* (src/build/mod.rs: Builder::build, build_all, build_all_parallel) with  *)
(* the command line entry (src/main.rs), the cargo invocation, and         *)
(* target parsing, alias resolution and tier classification                *)
(* (src/target/mod.rs).                                                    *)
(*                                                                         *)
(* Strings are tuples of one-character strings, so that splitting a        *)
(* triple on '-' is computed and not assumed.                              *)
(***************************************************************************)
EXTENDS Integers, Sequences, FiniteSets, TLC

VARIABLES
    made,         \* what with_cache_dir returned for each cache instance
    entries,      \* BuildCache.entries of each cache instance: target -> CacheEntry
    store,        \* the file build-cache.json of the cache directory
    now,          \* SystemTime::now() in seconds since the epoch
    lastQuery,    \* the last needs_rebuild call: its arguments and its answer
    mode,         \* which entry point runs: "build", "build_all", "build_all_parallel"
    cli,          \* TRUE when the entry point is reached through main()
    targets,      \* the targets argument of build_all / build_all_parallel
    optTarget,    \* options.target of the caller
    configDefault,\* config.targets.default of the Builder
    mpc,          \* position of the calling thread
    idx,          \* loop index of the calling thread (for / join loop)
    att,          \* the build attempts, one per list position
    task,         \* the spawn_blocking tasks of build_all_parallel, one per position
    successes,    \* the successes vector
    failures,     \* the failures vector
    lockS,        \* holder of the successes mutex (0: free)
    lockF,        \* holder of the failures mutex (0: free)
    ret,          \* what the entry point returned
    exitCode,     \* exit status of the process when run through main()
    attemptLog,   \* list positions in the order build_all called build for them
    hcall,        \* the function of cache/hash.rs that is called
    paths,        \* the paths argument of hash_files: the files as the call finds them
    values,       \* the values argument of hash_combine
    hashed,       \* what the called function returned, once it has returned
    ident,        \* the identifier given to Target::from_triple
    fromTriple,   \* what from_triple returned for it, once it has returned
    resolved,     \* what resolve_alias returned for ident, once it has returned
    probe,        \* what detect_host returned to resolve_alias, if it was called
    tierGot,      \* what classify_tier returned for ident, once it has returned
    options,      \* the BuildOptions of a cargo invocation
    cargo_flags,  \* config.build.cargo_flags of that invocation
    cmd           \* the arguments given to cargo, once they are assembled

cacheVars == <<made, entries, store, now, lastQuery>>
buildVars == <<mode, cli, targets, optTarget, configDefault, mpc, idx, att, task,
               successes, failures, lockS, lockF, ret, exitCode, attemptLog>>
hashVars == <<hcall, paths, values, hashed>>
targetVars == <<ident, fromTriple, resolved, probe, tierGot>>
cmdVars == <<options, cargo_flags, cmd>>
vars == <<made, entries, store, now, lastQuery, mode, cli, targets, optTarget,
          configDefault, mpc, idx, att, task, successes, failures, lockS, lockF,
          ret, exitCode, attemptLog, hcall, paths, values, hashed, ident, fromTriple, resolved, probe, tierGot,
          options, cargo_flags, cmd>>

-----------------------------------------------------------------------------
(* Bounds *)

\* largest fingerprint value drawn for a cache update or query
MaxHash == 2
\* largest clock value
MaxTime == 1
\* longest target list given to build_all / build_all_parallel
MaxTargets == 2
\* longest paths argument of hash_files
MaxFiles == 2
\* largest of the small values drawn for hash_combine
MaxValue == 7
\* longest identifier drawn from the letters a, b and the hyphen
MaxLen == 4
MaxArgs == 2

-----------------------------------------------------------------------------
(* Strings *)

None == "None"

\* Option<T>: None is the empty tuple, Some(x) the tuple of x alone
NoneOpt == <<>>
Some(x) == <<x>>
IsSome(o) == Len(o) = 1
Unwrap(o) == o[1]

\* Result<T>
Ok(v) == [ok |-> TRUE, val |-> v]
Err(kind, named) == [ok |-> FALSE, kind |-> kind, named |-> named]

TLinux == <<"x", "8", "6", "_", "6", "4", "-", "u", "n", "k", "n", "o", "w", "n", "-", "l", "i", "n", "u", "x", "-", "g", "n", "u">>
TWindows == <<"x", "8", "6", "_", "6", "4", "-", "p", "c", "-", "w", "i", "n", "d", "o", "w", "s", "-", "g", "n", "u">>
TAliasLinux == <<"l", "i", "n", "u", "x">>
OsWindows == <<"w", "i", "n", "d", "o", "w", "s">>

\* str::split(sep): the pieces between the separators; "" splits into [""]
RECURSIVE SplitFrom(_, _, _, _)
SplitFrom(s, sep, i, cur) ==
    IF i > Len(s) THEN <<cur>>
    ELSE IF s[i] = sep THEN <<cur>> \o SplitFrom(s, sep, i + 1, <<>>)
    ELSE SplitFrom(s, sep, i + 1, Append(cur, s[i]))

Split(s, sep) == SplitFrom(s, sep, 1, <<>>)

\* [&str]::join(sep)
RECURSIVE Join(_, _)
Join(parts, sep) ==
    IF Len(parts) = 0 THEN <<>>
    ELSE IF Len(parts) = 1 THEN parts[1]
    ELSE parts[1] \o <<sep>> \o Join(Tail(parts), sep)

-----------------------------------------------------------------------------
(* The build cache: src/cache/mod.rs *)

Inst == {"a", "b"}
CacheKeys == {TLinux, TWindows}
Hashes == 1..MaxHash

EmptyMap == [k \in {} |-> NoneOpt]

\* HashMap::get
Get(m, target) == IF target \in DOMAIN m THEN Some(m[target]) ELSE NoneOpt

\* HashMap::insert: the new value replaces the one of an equal key
Insert(m, k, v) == [x \in (DOMAIN m) \cup {k} |-> IF x = k THEN v ELSE m[x]]

\* HashMap::remove
Remove(m, k) == [x \in (DOMAIN m) \ {k} |-> m[x]]

CacheEntry(target, source_hash, timestamp, success) ==
    [target |-> target, source_hash |-> source_hash,
     timestamp |-> timestamp, success |-> success]

\* BuildCache::needs_rebuild, without the check of the previous outcome
needs_rebuild_ignoring_success(m, target, source_hash) ==
    IF ~IsSome(Get(m, target)) THEN TRUE
    ELSE Unwrap(Get(m, target)).source_hash # source_hash

\* BuildCache::needs_rebuild, without the comparison of the fingerprints
needs_rebuild_ignoring_hash(m, target, source_hash) ==
    IF ~IsSome(Get(m, target)) THEN TRUE
    ELSE ~Unwrap(Get(m, target)).success

\* BuildCache::needs_rebuild
needs_rebuild(m, target, source_hash) ==
    IF ~IsSome(Get(m, target)) THEN TRUE
    ELSE (~Unwrap(Get(m, target)).success)
         \/ Unwrap(Get(m, target)).source_hash # source_hash

\* BuildCache::update that changes an existing entry in place and forgets to
\* store the new outcome
update_keep_outcome(m, target, source_hash, timestamp, success) ==
    IF target \in DOMAIN m
    THEN Insert(m, target,
                CacheEntry(target, source_hash, timestamp, m[target].success))
    ELSE Insert(m, target, CacheEntry(target, source_hash, timestamp, success))

\* BuildCache::update: the map after the call
update(m, target, source_hash, timestamp, success) ==
    Insert(m, target, CacheEntry(target, source_hash, timestamp, success))

\* a serialization that writes every timestamp as 0
ToJson_without_timestamp(m) ==
    {<<k, [m[k] EXCEPT !.timestamp = 0]>> : k \in DOMAIN m}

\* serde_json::to_string_pretty(&self.entries): a JSON object, one member per key
ToJson(m) == {<<k, m[k]>> : k \in DOMAIN m}

\* the file build-cache.json holding the text of a JSON object
JsonFile(obj) == [exists |-> TRUE, text |-> "object", contents |-> obj]

\* the file build-cache.json of zero bytes, and one holding text that is not
\* the JSON of a map of cache entries
EmptyFile == [exists |-> TRUE, text |-> "empty", contents |-> {}]
GarbageFile == [exists |-> TRUE, text |-> "garbage", contents |-> {}]

\* serde_json::from_str::<HashMap<String, CacheEntry>>: the map of the members
\* of the object; any other text, the empty text included, is a parse error
from_str(file) ==
    IF file.text = "object"
    THEN Ok([k \in {e[1] : e \in file.contents} |->
                (CHOOSE e \in file.contents : e[1] = k)[2]])
    ELSE Err("Json", NoneOpt)

\* a load that takes a file it cannot parse for an empty cache
load_tolerant(current, file) ==
    IF ~file.exists THEN Ok(current)
    ELSE IF from_str(file).ok THEN Ok(from_str(file).val)
    ELSE Ok(current)

\* BuildCache::load: Ok with the entries the instance holds afterwards, or Err
load(current, file) ==
    IF ~file.exists THEN Ok(current)
    ELSE IF from_str(file).ok THEN Ok(from_str(file).val)
    ELSE Err("Config", NoneOpt)

\* BuildCache::needs_rebuild called by a client of the cache
NeedsRebuild(i, t, h) ==
    /\ made[i] = "Ok"
    /\ lastQuery' = [target |-> t, source_hash |-> h,
                     result |-> needs_rebuild(entries[i], t, h)]
    /\ UNCHANGED <<made, entries, store, now>>
    /\ UNCHANGED buildVars
    /\ UNCHANGED hashVars
    /\ UNCHANGED targetVars
    /\ UNCHANGED cmdVars

\* BuildCache::update
Update(i, t, h, s) ==
    /\ made[i] = "Ok"
    /\ entries' = [entries EXCEPT ![i] = update(entries[i], t, h, now, s)]
    /\ UNCHANGED <<made, store, now, lastQuery>>
    /\ UNCHANGED buildVars
    /\ UNCHANGED hashVars
    /\ UNCHANGED targetVars
    /\ UNCHANGED cmdVars

\* BuildCache::clear that also writes the emptied cache to the file
Clear_saving(i) ==
    /\ made[i] = "Ok"
    /\ entries' = [entries EXCEPT ![i] = EmptyMap]
    /\ store' = JsonFile(ToJson(EmptyMap))
    /\ UNCHANGED <<made, now, lastQuery>>
    /\ UNCHANGED buildVars
    /\ UNCHANGED hashVars
    /\ UNCHANGED targetVars
    /\ UNCHANGED cmdVars

\* BuildCache::clear
Clear(i) ==
    /\ made[i] = "Ok"
    /\ entries' = [entries EXCEPT ![i] = EmptyMap]
    /\ UNCHANGED <<made, store, now, lastQuery>>
    /\ UNCHANGED buildVars
    /\ UNCHANGED hashVars
    /\ UNCHANGED targetVars
    /\ UNCHANGED cmdVars

\* BuildCache::clear_target
ClearTarget(i, t) ==
    /\ made[i] = "Ok"
    /\ entries' = [entries EXCEPT ![i] = Remove(entries[i], t)]
    /\ UNCHANGED <<made, store, now, lastQuery>>
    /\ UNCHANGED buildVars
    /\ UNCHANGED hashVars
    /\ UNCHANGED targetVars
    /\ UNCHANGED cmdVars

\* BuildCache::save
\* a save that keeps the records of the file for the targets the instance
\* does not hold
Save_merging(i) ==
    /\ made[i] = "Ok"
    /\ store' = JsonFile({r \in store.contents : r[1] \notin DOMAIN entries[i]}
                             \cup ToJson(entries[i]))
    /\ UNCHANGED <<made, entries, now, lastQuery>>
    /\ UNCHANGED buildVars
    /\ UNCHANGED hashVars
    /\ UNCHANGED targetVars
    /\ UNCHANGED cmdVars

Save(i) ==
    /\ made[i] = "Ok"
    /\ store' = JsonFile(ToJson(entries[i]))
    /\ UNCHANGED <<made, entries, now, lastQuery>>
    /\ UNCHANGED buildVars
    /\ UNCHANGED hashVars
    /\ UNCHANGED targetVars
    /\ UNCHANGED cmdVars

\* the wall clock advances
Tick ==
    /\ now < MaxTime
    /\ now' = now + 1
    /\ UNCHANGED <<made, entries, store, lastQuery>>
    /\ UNCHANGED buildVars
    /\ UNCHANGED hashVars
    /\ UNCHANGED targetVars
    /\ UNCHANGED cmdVars

NoQuery == [target |-> <<>>, source_hash |-> 0, result |-> FALSE]
\* the process has not exited
Running == 0 - 1
\* the cache directory without the file build-cache.json
NoStore == [exists |-> FALSE, text |-> "none", contents |-> {}]

\* no entry point of the orchestrator is running
BuildIdle ==
    /\ mode = None
    /\ cli = FALSE
    /\ targets = <<>>
    /\ optTarget = NoneOpt
    /\ configDefault = <<>>
    /\ mpc = "idle"
    /\ idx = 0
    /\ att = <<>>
    /\ task = <<>>
    /\ successes = <<>>
    /\ failures = <<>>
    /\ lockS = 0
    /\ lockF = 0
    /\ ret = None
    /\ exitCode = Running
    /\ attemptLog = <<>>

\* BuildCache::with_cache_dir on a directory without a cache file
CacheFresh ==
    /\ made = [i \in Inst |-> "Ok"]
    /\ entries = [i \in Inst |-> EmptyMap]
    /\ store = NoStore
    /\ now = 0
    /\ lastQuery = NoQuery

\* no function of cache/hash.rs is called
HashIdle ==
    /\ hcall = None
    /\ paths = <<>>
    /\ values = <<>>
    /\ hashed = NoneOpt

\* from_triple is not called
\* no cargo invocation is being assembled
CmdIdle ==
    /\ options = NoneOpt
    /\ cargo_flags = <<>>
    /\ cmd = NoneOpt

TargetIdle ==
    /\ ident = <<>>
    /\ fromTriple = NoneOpt
    /\ resolved = NoneOpt
    /\ probe = NoneOpt
    /\ tierGot = NoneOpt

InitCache == CacheFresh /\ BuildIdle /\ HashIdle /\ TargetIdle /\ CmdIdle

\* the cache used by one client: updates, invalidation, saving
NextCache ==
    \/ \E t \in CacheKeys, h \in Hashes, s \in BOOLEAN : Update("a", t, h, s)
    \/ Clear("a")
    \/ \E t \in CacheKeys : ClearTarget("a", t)
    \/ Save("a")
    \/ Tick

SpecCache == InitCache /\ [][NextCache]_vars

\* the cache asked by its client whether to rebuild, between the changes
NextQuery ==
    \/ \E t \in CacheKeys, h \in Hashes : NeedsRebuild("a", t, h)
    \/ \E t \in CacheKeys, h \in Hashes, s \in BOOLEAN : Update("a", t, h, s)
    \/ Clear("a")
    \/ \E t \in CacheKeys : ClearTarget("a", t)
    \/ Tick

SpecQuery == InitCache /\ [][NextQuery]_vars

\* BuildCache::with_cache_dir: create_dir_all(..)?, then load()? into a cache
\* of no entries; the file is only read
Construct(i) ==
    /\ made[i] = None
    /\ \E dir_created \in BOOLEAN :
           IF ~dir_created
           THEN /\ made' = [made EXCEPT ![i] = "ErrIo"]
                /\ UNCHANGED entries
           ELSE IF load(EmptyMap, store).ok
           THEN /\ made' = [made EXCEPT ![i] = "Ok"]
                /\ entries' = [entries EXCEPT ![i] = load(EmptyMap, store).val]
           ELSE /\ made' = [made EXCEPT ![i] = "ErrConfig"]
                /\ UNCHANGED entries
    /\ UNCHANGED <<store, now, lastQuery>>
    /\ UNCHANGED buildVars
    /\ UNCHANGED hashVars
    /\ UNCHANGED targetVars
    /\ UNCHANGED cmdVars

\* the files an earlier run can have left: the saved cache of one record of
\* fingerprint 1 written at time 0
SavedFiles ==
    { JsonFile(ToJson(update(EmptyMap, t, 1, 0, s))) :
          t \in CacheKeys, s \in BOOLEAN }

\* the cache directory as a process finds it, later than the earlier run:
\* without the cache file, with the file an earlier run saved, or with a file
\* that is empty or holds something else than a saved cache; no cache is
\* constructed yet
InitStore ==
    /\ made = [i \in Inst |-> None]
    /\ entries = [i \in Inst |-> EmptyMap]
    /\ store \in {NoStore, EmptyFile, GarbageFile} \cup SavedFiles
    /\ now = MaxTime
    /\ lastQuery = NoQuery
    /\ BuildIdle
    /\ HashIdle
    /\ TargetIdle
    /\ CmdIdle

\* the cache "a" constructed on the directory, changed and saved, and the
\* cache "b" constructed on the same directory at any moment
NextStore ==
    \/ \E i \in Inst : Construct(i)
    \/ \E t \in CacheKeys, h \in Hashes, s \in BOOLEAN : Update("a", t, h, s)
    \/ Clear("a")
    \/ \E t \in CacheKeys : ClearTarget("a", t)
    \/ Save("a")

SpecStore == InitStore /\ [][NextStore]_vars

\* two processes that write the cache of one directory, each recording the
\* builds of its own target, and a third that only reads it
Processes == Inst \cup {"c"}
OwnTarget(i) == IF i = "a" THEN TLinux ELSE TWindows

\* the cache directory without the cache file or with the file an earlier run
\* saved; no cache is constructed yet
InitRace ==
    /\ made = [i \in Processes |-> None]
    /\ entries = [i \in Processes |-> EmptyMap]
    /\ store \in {NoStore} \cup SavedFiles
    /\ now = MaxTime
    /\ lastQuery = NoQuery
    /\ BuildIdle
    /\ HashIdle
    /\ TargetIdle
    /\ CmdIdle

\* each process constructs its cache on the directory at any moment; "a" and
\* "b" record successful builds of their own target and save, in any order
NextRace ==
    \/ \E i \in Processes : Construct(i)
    \/ \E i \in Inst, h \in Hashes : Update(i, OwnTarget(i), h, TRUE)
    \/ \E i \in Inst : Save(i)

SpecRace == InitRace /\ [][NextRace]_vars

-----------------------------------------------------------------------------
(* Fingerprints: src/cache/hash.rs *)

\* u64: four limbs of 16 bits, the least significant first
LimbBase == 65536
U64(n) == <<n, 0, 0, 0>>

\* u64::wrapping_add
wrapping_add(x, y) ==
    LET s1 == x[1] + y[1]
        s2 == x[2] + y[2] + (s1 \div LimbBase)
        s3 == x[3] + y[3] + (s2 \div LimbBase)
        s4 == x[4] + y[4] + (s3 \div LimbBase)
    IN <<s1 % LimbBase, s2 % LimbBase, s3 % LimbBase, s4 % LimbBase>>

\* u64::wrapping_mul by a factor below 2^15
wrapping_mul(x, k) ==
    LET p1 == x[1] * k
        p2 == x[2] * k + (p1 \div LimbBase)
        p3 == x[3] * k + (p2 \div LimbBase)
        p4 == x[4] * k + (p3 \div LimbBase)
    IN <<p1 % LimbBase, p2 % LimbBase, p3 % LimbBase, p4 % LimbBase>>

\* hash << 6: the bits shifted out at the top are lost
shl6(x) ==
    [i \in 1..4 |->
        ((x[i] * 64) % LimbBase) + (IF i > 1 THEN x[i - 1] \div 1024 ELSE 0)]

\* hash >> 2
shr2(x) ==
    [i \in 1..4 |->
        (x[i] \div 4) + (IF i < 4 THEN (x[i + 1] % 4) * 16384 ELSE 0)]

\* the exclusive or of two numbers of n bits
RECURSIVE xor_bits(_, _, _)
xor_bits(a, b, n) ==
    IF n = 0 THEN 0
    ELSE ((a + b) % 2) + 2 * xor_bits(a \div 2, b \div 2, n - 1)

\* u64 ^ u64
xor(x, y) == [i \in 1..4 |-> xor_bits(x[i], y[i], 16)]

\* 0x9e3779b9
Golden == <<31161, 40503, 0, 0>>

\* a fold that takes the exclusive or of the values and the constant
RECURSIVE hash_combine_unordered_from(_, _)
hash_combine_unordered_from(hash, vals) ==
    IF Len(vals) = 0 THEN hash
    ELSE hash_combine_unordered_from(
             xor(hash, wrapping_add(Head(vals), Golden)), Tail(vals))

hash_combine_unordered(vals) == hash_combine_unordered_from(U64(0), vals)

\* the loop of hash_combine from the accumulator hash on
RECURSIVE hash_combine_from(_, _)
hash_combine_from(hash, vals) ==
    IF Len(vals) = 0 THEN hash
    ELSE hash_combine_from(
             xor(hash,
                 wrapping_add(wrapping_add(wrapping_add(Head(vals), Golden),
                                           shl6(hash)),
                              shr2(hash))),
             Tail(vals))

\* hash_combine
hash_combine(vals) == hash_combine_from(U64(0), vals)

\* the bytes of the characters of the paths
ByteOf == [c \in {"a", "b", "c", "d", "e"} |->
              CASE c = "a" -> 97 [] c = "b" -> 98 [] c = "c" -> 99
                [] c = "d" -> 100 [] c = "e" -> 101]

\* hash_str: DJB2 from the accumulator hash on
RECURSIVE hash_str_from(_, _)
hash_str_from(hash, s) ==
    IF Len(s) = 0 THEN hash
    ELSE hash_str_from(wrapping_add(wrapping_mul(hash, 33), U64(ByteOf[Head(s)])),
                       Tail(s))

\* hash_str
hash_str(s) == hash_str_from(U64(5381), s)

\* a file as a call finds it: its path, whether the path is valid UTF-8, and the
\* metadata (None: fs::metadata fails) with the length and the modification
\* time in seconds (None: not available or before the epoch)
File(path, utf8, meta) == [path |-> path, utf8 |-> utf8, meta |-> meta]
Metadata(len, modified) == [len |-> len, modified |-> modified]

\* hash_file
hash_file(f) ==
    IF ~IsSome(f.meta) THEN NoneOpt
    ELSE IF ~IsSome(Unwrap(f.meta).modified) THEN NoneOpt
    ELSE IF ~f.utf8 THEN NoneOpt
    ELSE Some(hash_combine(<<U64(Unwrap(f.meta).len),
                             U64(Unwrap(Unwrap(f.meta).modified)),
                             hash_str(f.path)>>))

\* paths.iter().filter_map(|p| hash_file(p)).collect()
RECURSIVE filter_map_hash_file(_)
filter_map_hash_file(ps) ==
    IF Len(ps) = 0 THEN <<>>
    ELSE IF IsSome(hash_file(Head(ps)))
    THEN <<Unwrap(hash_file(Head(ps)))>> \o filter_map_hash_file(Tail(ps))
    ELSE filter_map_hash_file(Tail(ps))

\* hash_files without the comparison of the lengths
hash_files_of_accessible(ps) == Some(hash_combine(filter_map_hash_file(ps)))

\* hash_files
hash_files(ps) ==
    LET hashes == filter_map_hash_file(ps) IN
    IF Len(hashes) # Len(ps) THEN NoneOpt
    ELSE Some(hash_combine(hashes))

\* the files of the calls: two that can be hashed, one that does not exist, one
\* without a modification time, one whose path is not UTF-8
Files ==
    { File(<<"a">>, TRUE, Some(Metadata(1, Some(1)))),
      File(<<"b", "c">>, TRUE, Some(Metadata(2, Some(1)))),
      File(<<"c">>, TRUE, NoneOpt),
      File(<<"d">>, TRUE, Some(Metadata(1, NoneOpt))),
      File(<<"e">>, FALSE, Some(Metadata(1, Some(1)))) }

\* two values on which both orders of the fold agree:
\* 0xffffffff61c88647 and 0xff00ff0060c98548
CollideA == <<34375, 25032, 65535, 65535>>
CollideB == <<34120, 24777, 65280, 65280>>

\* the values of the calls of hash_combine
HashValues == {U64(n) : n \in 0..MaxValue} \cup {CollideA, CollideB}

\* hash_files is called and returns
HashFiles ==
    /\ hcall = "hash_files"
    /\ hashed = NoneOpt
    /\ hashed' = Some(hash_files(paths))
    /\ UNCHANGED <<hcall, paths, values>>
    /\ UNCHANGED cacheVars
    /\ UNCHANGED buildVars
    /\ UNCHANGED targetVars
    /\ UNCHANGED cmdVars

\* hash_combine is called and returns
HashCombine ==
    /\ hcall = "hash_combine"
    /\ hashed = NoneOpt
    /\ hashed' = Some(hash_combine(values))
    /\ UNCHANGED <<hcall, paths, values>>
    /\ UNCHANGED cacheVars
    /\ UNCHANGED buildVars
    /\ UNCHANGED targetVars
    /\ UNCHANGED cmdVars

\* a call of hash_files on at most MaxFiles files, or of hash_combine on two
\* values or on three of the values 1, 2, 3
InitHash ==
    /\ CacheFresh
    /\ BuildIdle
    /\ TargetIdle
    /\ CmdIdle
    /\ hashed = NoneOpt
    /\ \/ /\ hcall = "hash_files"
          /\ paths \in UNION {[1..n -> Files] : n \in 0..MaxFiles}
          /\ values = <<>>
       \/ /\ hcall = "hash_combine"
          /\ paths = <<>>
          /\ values \in [1..2 -> HashValues] \cup [1..3 -> {U64(1), U64(2), U64(3)}]

NextHash == HashFiles \/ HashCombine

SpecHash == InitHash /\ [][NextHash]_vars

-----------------------------------------------------------------------------
(* Targets: src/target/mod.rs *)

\* str::starts_with
StartsWith(s, p) == Len(p) <= Len(s) /\ SubSeq(s, 1, Len(p)) = p

\* str::contains
Contains(s, p) ==
    \E i \in 1..(Len(s) + 1) :
        i + Len(p) - 1 <= Len(s) /\ SubSeq(s, i, i + Len(p) - 1) = p

\* the tier1 array of classify_tier
tier1 ==
    { <<"x", "8", "6", "_", "6", "4", "-", "u", "n", "k", "n", "o", "w", "n", "-", "l", "i", "n", "u", "x", "-", "g", "n", "u">>,
      <<"x", "8", "6", "_", "6", "4", "-", "u", "n", "k", "n", "o", "w", "n", "-", "l", "i", "n", "u", "x", "-", "m", "u", "s", "l">>,
      <<"x", "8", "6", "_", "6", "4", "-", "p", "c", "-", "w", "i", "n", "d", "o", "w", "s", "-", "g", "n", "u">>,
      <<"x", "8", "6", "_", "6", "4", "-", "a", "p", "p", "l", "e", "-", "d", "a", "r", "w", "i", "n">>,
      <<"a", "a", "r", "c", "h", "6", "4", "-", "a", "p", "p", "l", "e", "-", "d", "a", "r", "w", "i", "n">>,
      <<"i", "6", "8", "6", "-", "p", "c", "-", "w", "i", "n", "d", "o", "w", "s", "-", "g", "n", "u">>,
      <<"i", "6", "8", "6", "-", "u", "n", "k", "n", "o", "w", "n", "-", "l", "i", "n", "u", "x", "-", "g", "n", "u">> }

\* classify_tier that looks for every marker at the start of the triple only
classify_tier_prefix_only(triple) ==
    IF triple \in tier1 THEN "Native"
    ELSE IF \/ StartsWith(triple, <<"a", "n", "d", "r", "o", "i", "d">>)
            \/ StartsWith(triple, <<"i", "o", "s">>)
            \/ StartsWith(triple, <<"w", "a", "s", "m">>)
            \/ StartsWith(triple, <<"t", "h", "u", "m", "b">>)
            \/ StartsWith(triple, <<"r", "i", "s", "c", "v">>)
         THEN "Specialized"
    ELSE "Container"

\* Target::classify_tier
classify_tier(triple) ==
    IF triple \in tier1 THEN "Native"
    ELSE IF \/ Contains(triple, <<"a", "n", "d", "r", "o", "i", "d">>)
            \/ Contains(triple, <<"i", "o", "s">>)
            \/ StartsWith(triple, <<"w", "a", "s", "m">>)
            \/ StartsWith(triple, <<"t", "h", "u", "m", "b">>)
            \/ StartsWith(triple, <<"r", "i", "s", "c", "v">>)
         THEN "Specialized"
    ELSE "Container"

\* from_triple that takes an identifier without an environment for invalid
from_triple_requiring_env(triple) ==
    LET parts == Split(triple, "-") IN
    IF Len(parts) < 4
    THEN Err("TargetNotFound", Some(triple))
    ELSE Ok([triple |-> triple,
             arch   |-> parts[1],
             vendor |-> parts[2],
             os     |-> parts[3],
             env    |-> Some(Join(SubSeq(parts, 4, Len(parts)), "-")),
             tier   |-> classify_tier(triple)])

\* from_triple that takes the fourth component alone for the environment
from_triple_env_of_one_part(triple) ==
    LET parts == Split(triple, "-") IN
    IF Len(parts) < 3
    THEN Err("TargetNotFound", Some(triple))
    ELSE Ok([triple |-> triple,
             arch   |-> parts[1],
             vendor |-> parts[2],
             os     |-> parts[3],
             env    |-> IF Len(parts) >= 4 THEN Some(parts[4]) ELSE NoneOpt,
             tier   |-> classify_tier(triple)])

\* Target::from_triple
from_triple(triple) ==
    LET parts == Split(triple, "-") IN
    IF Len(parts) < 3
    THEN Err("TargetNotFound", Some(triple))
    ELSE Ok([triple |-> triple,
             arch   |-> parts[1],
             vendor |-> parts[2],
             os     |-> parts[3],
             env    |-> IF Len(parts) >= 4
                        THEN Some(Join(SubSeq(parts, 4, Len(parts)), "-"))
                        ELSE NoneOpt,
             tier   |-> classify_tier(triple)])

\* the host line of `rustc -vV`
HostTriple == TLinux

\* Target::detect_host: rustc may fail to run, or report its host
detect_host == {Err("Toolchain", NoneOpt), from_triple(HostTriple)}

\* the ASCII letters that str::to_lowercase changes, and their lower case
UpperCase == <<"A", "B", "C", "D", "E", "F", "G", "H", "I", "J", "K", "L", "M", "N", "O", "P", "Q", "R", "S", "T", "U", "V", "W", "X", "Y", "Z">>
LowerCase == <<"a", "b", "c", "d", "e", "f", "g", "h", "i", "j", "k", "l", "m", "n", "o", "p", "q", "r", "s", "t", "u", "v", "w", "x", "y", "z">>

\* char::to_lowercase
lower_char(c) ==
    IF \E i \in 1..Len(UpperCase) : UpperCase[i] = c
    THEN LowerCase[CHOOSE i \in 1..Len(UpperCase) : UpperCase[i] = c]
    ELSE c

\* str::to_lowercase
to_lowercase(s) == [i \in 1..Len(s) |-> lower_char(s[i])]

AliasMacos == <<"m", "a", "c", "o", "s">>
ArchAarch64 == <<"a", "a", "r", "c", "h", "6", "4">>
OsDarwin == <<"d", "a", "r", "w", "i", "n">>
TMacArm == <<"a", "a", "r", "c", "h", "6", "4", "-", "a", "p", "p", "l", "e", "-", "d", "a", "r", "w", "i", "n">>
TMacIntel == <<"x", "8", "6", "_", "6", "4", "-", "a", "p", "p", "l", "e", "-", "d", "a", "r", "w", "i", "n">>

\* the arms of the match in resolve_alias that do not look at the host:
\* <<alias, triple>>
alias_table ==
    { <<<<"l", "i", "n", "u", "x">>,
        <<"x", "8", "6", "_", "6", "4", "-", "u", "n", "k", "n", "o", "w", "n", "-", "l", "i", "n", "u", "x", "-", "g", "n", "u">>>>,
      <<<<"w", "i", "n", "d", "o", "w", "s">>,
        <<"x", "8", "6", "_", "6", "4", "-", "p", "c", "-", "w", "i", "n", "d", "o", "w", "s", "-", "g", "n", "u">>>>,
      <<<<"l", "i", "n", "u", "x", "-", "a", "r", "m", "6", "4">>,
        <<"a", "a", "r", "c", "h", "6", "4", "-", "u", "n", "k", "n", "o", "w", "n", "-", "l", "i", "n", "u", "x", "-", "g", "n", "u">>>>,
      <<<<"l", "i", "n", "u", "x", "-", "a", "a", "r", "c", "h", "6", "4">>,
        <<"a", "a", "r", "c", "h", "6", "4", "-", "u", "n", "k", "n", "o", "w", "n", "-", "l", "i", "n", "u", "x", "-", "g", "n", "u">>>>,
      <<<<"l", "i", "n", "u", "x", "-", "a", "r", "m", "v", "7">>,
        <<"a", "r", "m", "v", "7", "-", "u", "n", "k", "n", "o", "w", "n", "-", "l", "i", "n", "u", "x", "-", "g", "n", "u", "e", "a", "b", "i", "h", "f">>>>,
      <<<<"l", "i", "n", "u", "x", "-", "m", "u", "s", "l">>,
        <<"x", "8", "6", "_", "6", "4", "-", "u", "n", "k", "n", "o", "w", "n", "-", "l", "i", "n", "u", "x", "-", "m", "u", "s", "l">>>>,
      <<<<"l", "i", "n", "u", "x", "-", "a", "r", "m", "6", "4", "-", "m", "u", "s", "l">>,
        <<"a", "a", "r", "c", "h", "6", "4", "-", "u", "n", "k", "n", "o", "w", "n", "-", "l", "i", "n", "u", "x", "-", "m", "u", "s", "l">>>>,
      <<<<"w", "i", "n", "d", "o", "w", "s", "-", "m", "s", "v", "c">>,
        <<"x", "8", "6", "_", "6", "4", "-", "p", "c", "-", "w", "i", "n", "d", "o", "w", "s", "-", "m", "s", "v", "c">>>>,
      <<<<"w", "i", "n", "d", "o", "w", "s", "-", "g", "n", "u">>,
        <<"x", "8", "6", "_", "6", "4", "-", "p", "c", "-", "w", "i", "n", "d", "o", "w", "s", "-", "g", "n", "u">>>>,
      <<<<"w", "i", "n", "d", "o", "w", "s", "-", "3", "2">>,
        <<"i", "6", "8", "6", "-", "p", "c", "-", "w", "i", "n", "d", "o", "w", "s", "-", "g", "n", "u">>>>,
      <<<<"a", "n", "d", "r", "o", "i", "d">>,
        <<"a", "a", "r", "c", "h", "6", "4", "-", "l", "i", "n", "u", "x", "-", "a", "n", "d", "r", "o", "i", "d">>>>,
      <<<<"a", "n", "d", "r", "o", "i", "d", "-", "a", "r", "m", "6", "4">>,
        <<"a", "a", "r", "c", "h", "6", "4", "-", "l", "i", "n", "u", "x", "-", "a", "n", "d", "r", "o", "i", "d">>>>,
      <<<<"a", "n", "d", "r", "o", "i", "d", "-", "a", "r", "m", "v", "7">>,
        <<"a", "r", "m", "v", "7", "-", "l", "i", "n", "u", "x", "-", "a", "n", "d", "r", "o", "i", "d", "e", "a", "b", "i">>>>,
      <<<<"a", "n", "d", "r", "o", "i", "d", "-", "x", "8", "6">>,
        <<"x", "8", "6", "_", "6", "4", "-", "l", "i", "n", "u", "x", "-", "a", "n", "d", "r", "o", "i", "d">>>>,
      <<<<"i", "o", "s">>,
        <<"a", "a", "r", "c", "h", "6", "4", "-", "a", "p", "p", "l", "e", "-", "i", "o", "s">>>>,
      <<<<"i", "o", "s", "-", "a", "r", "m", "6", "4">>,
        <<"a", "a", "r", "c", "h", "6", "4", "-", "a", "p", "p", "l", "e", "-", "i", "o", "s">>>>,
      <<<<"i", "o", "s", "-", "s", "i", "m">>,
        <<"a", "a", "r", "c", "h", "6", "4", "-", "a", "p", "p", "l", "e", "-", "i", "o", "s", "-", "s", "i", "m">>>>,
      <<<<"w", "a", "s", "m">>,
        <<"w", "a", "s", "m", "3", "2", "-", "u", "n", "k", "n", "o", "w", "n", "-", "u", "n", "k", "n", "o", "w", "n">>>>,
      <<<<"w", "a", "s", "m", "3", "2">>,
        <<"w", "a", "s", "m", "3", "2", "-", "u", "n", "k", "n", "o", "w", "n", "-", "u", "n", "k", "n", "o", "w", "n">>>>,
      <<<<"w", "a", "s", "i">>,
        <<"w", "a", "s", "m", "3", "2", "-", "w", "a", "s", "i">>>> }

\* resolve_alias that passes an unknown name on in lower case
resolve_alias_lowercasing(alias, host) ==
    LET alias_lower == to_lowercase(alias) IN
    IF \E e \in alias_table : e[1] = alias_lower
    THEN Ok((CHOOSE e \in alias_table : e[1] = alias_lower)[2])
    ELSE IF alias_lower = AliasMacos
    THEN IF host.ok /\ host.val.arch = ArchAarch64 /\ host.val.os = OsDarwin
         THEN Ok(TMacArm)
         ELSE Ok(TMacIntel)
    ELSE Ok(alias_lower)

\* resolve_alias that looks at the architecture of the host only
resolve_alias_by_arch(alias, host) ==
    LET alias_lower == to_lowercase(alias) IN
    IF \E e \in alias_table : e[1] = alias_lower
    THEN Ok((CHOOSE e \in alias_table : e[1] = alias_lower)[2])
    ELSE IF alias_lower = AliasMacos
    THEN IF host.ok /\ host.val.arch = ArchAarch64
         THEN Ok(TMacArm)
         ELSE Ok(TMacIntel)
    ELSE Ok(alias)

\* Target::resolve_alias: the alias is compared in lower case; what is not an
\* alias is returned as it was given; the result is always Ok
resolve_alias(alias, host) ==
    LET alias_lower == to_lowercase(alias) IN
    IF \E e \in alias_table : e[1] = alias_lower
    THEN Ok((CHOOSE e \in alias_table : e[1] = alias_lower)[2])
    ELSE IF alias_lower = AliasMacos
    THEN IF host.ok /\ host.val.arch = ArchAarch64 /\ host.val.os = OsDarwin
         THEN Ok(TMacArm)
         ELSE Ok(TMacIntel)
    ELSE Ok(alias)

TArmEabihf == <<"a", "r", "m", "-", "u", "n", "k", "n", "o", "w", "n", "-", "l", "i", "n", "u", "x", "-", "g", "n", "u", "e", "a", "b", "i", "h", "f">>
TLongEnv == <<"m", "i", "p", "s", "-", "u", "n", "k", "n", "o", "w", "n", "-", "l", "i", "n", "u", "x", "-", "g", "n", "u", "-", "n", "3", "2", "-", "t", "e", "s", "t">>

\* the identifiers of at most n characters among a, b and the hyphen
Strings(n) == UNION {[1..m -> {"a", "b", "-"}] : m \in 0..n}

\* the identifiers given to from_triple
Idents == Strings(MaxLen) \cup {TLinux, TWindows, TAliasLinux, TArmEabihf, TLongEnv}

\* Target::from_triple is called and returns
FromTriple ==
    /\ fromTriple = NoneOpt
    /\ fromTriple' = Some(from_triple(ident))
    /\ UNCHANGED <<ident, resolved, probe, tierGot>>
    /\ UNCHANGED cmdVars
    /\ UNCHANGED cacheVars
    /\ UNCHANGED buildVars
    /\ UNCHANGED hashVars

\* a call of from_triple on an identifier
InitTriple ==
    /\ CacheFresh
    /\ BuildIdle
    /\ HashIdle
    /\ CmdIdle
    /\ ident \in Idents
    /\ fromTriple = NoneOpt
    /\ resolved = NoneOpt
    /\ probe = NoneOpt
    /\ tierGot = NoneOpt

NextTriple == FromTriple

SpecTriple == InitTriple /\ [][NextTriple]_vars

TLinuxArm == <<"a", "a", "r", "c", "h", "6", "4", "-", "u", "n", "k", "n", "o", "w", "n", "-", "l", "i", "n", "u", "x", "-", "g", "n", "u">>
TIos == <<"a", "a", "r", "c", "h", "6", "4", "-", "a", "p", "p", "l", "e", "-", "i", "o", "s">>

\* what detect_host can return: rustc does not run, its host line does not
\* parse, or it names one of these hosts
Hosts ==
    {Err("Toolchain", NoneOpt)}
        \cup {from_triple(h) : h \in {TLinux, TMacArm, TMacIntel, TLinuxArm, TIos, <<"x">>}}

\* the words that classify_tier looks for, and words that only look like them
Markers ==
    { <<"a", "n", "d", "r", "o", "i", "d">>,
      <<"i", "o", "s">>,
      <<"w", "a", "s", "m">>,
      <<"t", "h", "u", "m", "b">>,
      <<"r", "i", "s", "c", "v">> }
NearMarkers ==
    { <<"a", "n", "d", "r", "o", "i">>,
      <<"i", "o", "-", "s">>,
      <<"w", "a", "s", "n">>,
      <<"t", "h", "u", "m">>,
      <<"r", "i", "s", "c">>,
      <<"I", "O", "S">>,
      <<"W", "A", "S", "M">> }

\* names written with capital letters
CapitalNames ==
    { <<"L", "I", "N", "U", "X">>,
      <<"M", "a", "c", "O", "S">>,
      <<"W", "a", "s", "i">>,
      <<"W", "i", "n", "d", "o", "w", "s", "-", "M", "S", "V", "C">>,
      <<"X", "8", "6", "_", "6", "4", "-", "U", "n", "k", "n", "o", "w", "n", "-", "L", "i", "n", "u", "x", "-", "G", "N", "U">>,
      <<"F", "o", "o">> }

\* the names given to the target commands: the aliases, the triples they stand
\* for, the native triples, the markers alone and between other characters,
\* names with capital letters, and the short identifiers
Names ==
    {e[1] : e \in alias_table} \cup {e[2] : e \in alias_table}
        \cup {AliasMacos, TMacArm, TMacIntel} \cup tier1
        \cup {p \o m \o q : p \in {<<>>, <<"a">>, <<"-">>},
                              m \in Markers \cup NearMarkers,
                              q \in {<<>>, <<"-", "a", "-", "b">>}}
        \cup CapitalNames \cup Strings(MaxLen)

\* Target::resolve_alias is called and returns; it calls detect_host in the arm
\* of "macos" only
ResolveAlias ==
    /\ resolved = NoneOpt
    /\ \E h \in Hosts :
           /\ resolved' = Some(resolve_alias(ident, h))
           /\ probe' = IF to_lowercase(ident) = AliasMacos THEN Some(h) ELSE NoneOpt
    /\ UNCHANGED <<ident, fromTriple, tierGot>>
    /\ UNCHANGED cmdVars
    /\ UNCHANGED cacheVars
    /\ UNCHANGED buildVars
    /\ UNCHANGED hashVars

\* main, `target info`: Target::from_triple(&target_triple) on the resolved name
InfoParse ==
    /\ resolved # NoneOpt
    /\ Unwrap(resolved).ok
    /\ fromTriple = NoneOpt
    /\ fromTriple' = Some(from_triple(Unwrap(resolved).val))
    /\ UNCHANGED <<ident, resolved, probe, tierGot>>
    /\ UNCHANGED cmdVars
    /\ UNCHANGED cacheVars
    /\ UNCHANGED buildVars
    /\ UNCHANGED hashVars

\* Target::classify_tier is called on the name and returns
ClassifyTier ==
    /\ tierGot = NoneOpt
    /\ tierGot' = Some(classify_tier(ident))
    /\ UNCHANGED <<ident, fromTriple, resolved, probe>>
    /\ UNCHANGED cmdVars
    /\ UNCHANGED cacheVars
    /\ UNCHANGED buildVars
    /\ UNCHANGED hashVars

\* a target command on a name
InitTarget ==
    /\ CacheFresh
    /\ BuildIdle
    /\ HashIdle
    /\ CmdIdle
    /\ ident \in Names
    /\ fromTriple = NoneOpt
    /\ resolved = NoneOpt
    /\ probe = NoneOpt
    /\ tierGot = NoneOpt

NextTarget == ResolveAlias \/ InfoParse \/ ClassifyTier

SpecTarget == InitTarget /\ [][NextTarget]_vars

-----------------------------------------------------------------------------
(* One build attempt: Builder::build, src/build/mod.rs *)

BuildIds == {TLinux, TWindows, TAliasLinux}

\* a build attempt before Builder::build is called for it
IdleAttempt ==
    [ph |-> "idle", opt |-> NoneOpt, target |-> NoneOpt, prepared |-> FALSE,
     invoked |-> FALSE, status |-> "none", err |-> NoneOpt]

\* Builder::build is entered with options.target = opt
enter_build(a, opt) == [a EXCEPT !.ph = "pending", !.opt = opt]

\* a choice of target that prefers the configured default to options.target
resolve_target_defaults_first(opt, defaults, host) ==
    IF Len(defaults) > 0 THEN Ok(defaults[1])
    ELSE IF IsSome(opt) THEN Ok(Unwrap(opt))
    ELSE IF host.ok THEN Ok(host.val.triple)
    ELSE host

\* the target_triple of a build: options.target, else the first configured
\* default, else the detected host
resolve_target(opt, defaults, host) ==
    IF IsSome(opt) THEN Ok(Unwrap(opt))
    ELSE IF Len(defaults) > 0 THEN Ok(defaults[1])
    ELSE IF host.ok THEN Ok(host.val.triple)
    ELSE host

\* the attempt after "Determine target" and "Parse target"
after_resolve(a, defaults, host) ==
    LET tt == resolve_target(a.opt, defaults, host)
        parsed == IF tt.ok THEN from_triple(tt.val) ELSE tt
    IN IF parsed.ok
       THEN [a EXCEPT !.ph = "parsed", !.target = Some(parsed.val)]
       ELSE [a EXCEPT !.ph = "failed", !.err = Some(parsed)]

\* prepare_target whose error is not propagated
after_prepare_ignoring_error(a, prepared) ==
    [a EXCEPT !.ph = "ready", !.prepared = prepared]

\* the attempt after toolchain_manager.prepare_target(..)?
after_prepare(a, prepared) ==
    IF prepared
    THEN [a EXCEPT !.ph = "ready", !.prepared = TRUE]
    ELSE [a EXCEPT !.ph = "failed", !.err = Some(Err("Toolchain", NoneOpt))]

\* the attempt after the host probe of the tips, entering cmd.status()
after_tips(a, host) ==
    IF host.ok
    THEN [a EXCEPT !.ph = "invoking", !.invoked = TRUE]
    ELSE [a EXCEPT !.ph = "failed", !.err = Some(host)]

\* the attempt after cmd.status() and the handling of the exit status
after_status(a, st, host) ==
    IF st = "unlaunchable"
    THEN [a EXCEPT !.ph = "failed", !.status = st,
                   !.err = Some(Err("Build", NoneOpt))]
    ELSE IF st = "nonzero"
    THEN [a EXCEPT !.ph = "failed", !.status = st,
                   !.err = Some(Err("Build", Some(Unwrap(a.target).triple)))]
    ELSE IF Unwrap(a.target).os = OsWindows /\ ~host.ok
    THEN [a EXCEPT !.ph = "failed", !.status = st, !.err = Some(host)]
    ELSE [a EXCEPT !.ph = "succeeded", !.status = st]

\* build: lines 109-123
B_Resolve(k) ==
    /\ att[k].ph = "pending"
    /\ \E host \in detect_host :
           att' = [att EXCEPT ![k] = after_resolve(att[k], configDefault, host)]
    /\ UNCHANGED <<mode, cli, targets, optTarget, configDefault, mpc, idx, task,
                   successes, failures, lockS, lockF, ret, exitCode, attemptLog>>
    /\ UNCHANGED cacheVars
    /\ UNCHANGED hashVars
    /\ UNCHANGED targetVars
    /\ UNCHANGED cmdVars

\* build: lines 132-135
B_Prepare(k) ==
    /\ att[k].ph = "parsed"
    /\ \E prepared \in BOOLEAN :
           att' = [att EXCEPT ![k] = after_prepare(att[k], prepared)]
    /\ UNCHANGED <<mode, cli, targets, optTarget, configDefault, mpc, idx, task,
                   successes, failures, lockS, lockF, ret, exitCode, attemptLog>>
    /\ UNCHANGED cacheVars
    /\ UNCHANGED hashVars
    /\ UNCHANGED targetVars
    /\ UNCHANGED cmdVars

\* build: lines 137-194, up to the launch of cargo
B_Invoke(k) ==
    /\ att[k].ph = "ready"
    /\ \E host \in detect_host :
           att' = [att EXCEPT ![k] = after_tips(att[k], host)]
    /\ UNCHANGED <<mode, cli, targets, optTarget, configDefault, mpc, idx, task,
                   successes, failures, lockS, lockF, ret, exitCode, attemptLog>>
    /\ UNCHANGED cacheVars
    /\ UNCHANGED hashVars
    /\ UNCHANGED targetVars
    /\ UNCHANGED cmdVars

\* build: lines 194-219
B_Exit(k) ==
    /\ att[k].ph = "invoking"
    /\ \E st \in {"unlaunchable", "nonzero", "success"}, host \in detect_host :
           att' = [att EXCEPT ![k] = after_status(att[k], st, host)]
    /\ UNCHANGED <<mode, cli, targets, optTarget, configDefault, mpc, idx, task,
                   successes, failures, lockS, lockF, ret, exitCode, attemptLog>>
    /\ UNCHANGED cacheVars
    /\ UNCHANGED hashVars
    /\ UNCHANGED targetVars
    /\ UNCHANGED cmdVars

\* Builder::build has returned for the attempt
Returned(a) == a.ph \in {"succeeded", "failed"}

-----------------------------------------------------------------------------
(* The cargo invocation of a build: Builder::build, src/build/mod.rs *)

ArgBuild == <<"b", "u", "i", "l", "d">>
ArgTarget == <<"-", "-", "t", "a", "r", "g", "e", "t">>
ArgRelease == <<"-", "-", "r", "e", "l", "e", "a", "s", "e">>
ArgVerbose == <<"-", "-", "v", "e", "r", "b", "o", "s", "e">>
ArgOffline == <<"-", "-", "o", "f", "f", "l", "i", "n", "e">>
ArgLocked == <<"-", "-", "l", "o", "c", "k", "e", "d">>
TcStable == <<"s", "t", "a", "b", "l", "e">>
TcNightly == <<"n", "i", "g", "h", "t", "l", "y">>

\* the lists of at most n arguments taken from a set
ArgLists(from, n) == UNION {[1..m -> from] : m \in 0..n}

\* the BuildOptions of the invocations, with the target named
BuildOptions ==
    [target : {Some(TLinux), Some(TWindows)},
     release : BOOLEAN,
     cargo_args : ArgLists({ArgLocked, ArgVerbose}, MaxArgs),
     toolchain : {NoneOpt, Some(TcStable), Some(TcNightly)},
     verbose : BOOLEAN]

\* an assembly that puts the caller's arguments before the configured flags
cargo_command_args_first(opts, flags, target) ==
    LET toolchain == IF IsSome(opts.toolchain) THEN Unwrap(opts.toolchain)
                     ELSE TcStable
        a1 == IF IsSome(opts.toolchain) THEN << <<"+">> \o toolchain >> ELSE <<>>
        a2 == a1 \o <<ArgBuild, ArgTarget, target.triple>>
        a3 == IF opts.release THEN Append(a2, ArgRelease) ELSE a2
        a4 == IF opts.verbose \/ \E i \in DOMAIN flags : flags[i] = ArgVerbose
              THEN Append(a3, ArgVerbose)
              ELSE a3
        a5 == a4 \o opts.cargo_args
    IN a5 \o SelectSeq(flags, LAMBDA flag : flag # ArgVerbose \/ ~opts.verbose)

\* the arguments of the cargo command, in the order of the cmd.arg calls
cargo_command(opts, flags, target) ==
    LET toolchain == IF IsSome(opts.toolchain) THEN Unwrap(opts.toolchain)
                     ELSE TcStable
        a1 == IF IsSome(opts.toolchain) THEN << <<"+">> \o toolchain >> ELSE <<>>
        a2 == a1 \o <<ArgBuild, ArgTarget, target.triple>>
        a3 == IF opts.release THEN Append(a2, ArgRelease) ELSE a2
        a4 == IF opts.verbose \/ \E i \in DOMAIN flags : flags[i] = ArgVerbose
              THEN Append(a3, ArgVerbose)
              ELSE a3
        a5 == a4 \o SelectSeq(flags, LAMBDA flag : flag # ArgVerbose \/ ~opts.verbose)
    IN a5 \o opts.cargo_args

\* build: the command is assembled for the parsed target
AssembleCommand ==
    /\ options # NoneOpt
    /\ cmd = NoneOpt
    /\ LET parsed == from_triple(Unwrap(options.target)) IN
           /\ parsed.ok
           /\ cmd' = Some(cargo_command(options, cargo_flags, parsed.val))
    /\ UNCHANGED <<options, cargo_flags>>
    /\ UNCHANGED cacheVars
    /\ UNCHANGED buildVars
    /\ UNCHANGED hashVars
    /\ UNCHANGED targetVars

InitCmd ==
    /\ CacheFresh
    /\ BuildIdle
    /\ HashIdle
    /\ TargetIdle
    /\ options \in BuildOptions
    /\ cargo_flags \in ArgLists({ArgOffline, ArgVerbose}, MaxArgs)
    /\ cmd = NoneOpt

NextCmd == AssembleCommand

SpecCmd == InitCmd /\ [][NextCmd]_vars

-----------------------------------------------------------------------------
(* main: src/main.rs, Commands::Build *)

\* main: Builder::new()?, then the dispatch on --all
M_Start ==
    /\ mpc = "main"
    /\ \E created \in BOOLEAN :
           IF ~created
           THEN /\ mpc' = "exited"
                /\ exitCode' = 1
                /\ UNCHANGED targets
           ELSE IF mode = "build_all" /\ Len(configDefault) = 0
           THEN /\ mpc' = "exited"
                /\ exitCode' = 1
                /\ UNCHANGED targets
           ELSE /\ mpc' = "entry"
                /\ targets' = IF mode = "build_all" THEN configDefault ELSE targets
                /\ UNCHANGED exitCode
    /\ UNCHANGED <<mode, cli, optTarget, configDefault, idx, att, task,
                   successes, failures, lockS, lockF, ret, attemptLog>>
    /\ UNCHANGED cacheVars
    /\ UNCHANGED hashVars
    /\ UNCHANGED targetVars
    /\ UNCHANGED cmdVars

\* main: the ? on the result of the build, and Ok(()) at the end
M_Exit ==
    /\ cli
    /\ mpc = "returned"
    /\ mpc' = "exited"
    /\ exitCode' = IF ret = "Ok" THEN 0 ELSE 1
    /\ UNCHANGED <<mode, targets, cli, optTarget, configDefault, idx, att, task,
                   successes, failures, lockS, lockF, ret, attemptLog>>
    /\ UNCHANGED cacheVars
    /\ UNCHANGED hashVars
    /\ UNCHANGED targetVars
    /\ UNCHANGED cmdVars

\* a single build: builder.build(&options)
One_Call ==
    /\ mode = "build"
    /\ mpc = "entry"
    /\ att' = [att EXCEPT ![1] = enter_build(att[1], optTarget)]
    /\ mpc' = "in_build"
    /\ UNCHANGED <<mode, cli, targets, optTarget, configDefault, idx, task,
                   successes, failures, lockS, lockF, ret, exitCode, attemptLog>>
    /\ UNCHANGED cacheVars
    /\ UNCHANGED hashVars
    /\ UNCHANGED targetVars
    /\ UNCHANGED cmdVars

One_Return ==
    /\ mode = "build"
    /\ mpc = "in_build"
    /\ Returned(att[1])
    /\ ret' = IF att[1].ph = "succeeded" THEN "Ok" ELSE "Err"
    /\ mpc' = "returned"
    /\ UNCHANGED <<mode, cli, targets, optTarget, configDefault, idx, att, task,
                   successes, failures, lockS, lockF, exitCode, attemptLog>>
    /\ UNCHANGED cacheVars
    /\ UNCHANGED hashVars
    /\ UNCHANGED targetVars
    /\ UNCHANGED cmdVars

-----------------------------------------------------------------------------
(* Builder::build_all *)

\* the summary that reports success whatever failed
summary_result_always_ok(fails) == "Ok"

\* the summary: an error when the failures vector is not empty
summary_result(fails) == IF Len(fails) # 0 THEN "ErrSomeFailed" ELSE "Ok"

\* build_all: lines 227-228
S_Begin ==
    /\ mode = "build_all"
    /\ mpc = "entry"
    /\ successes' = <<>>
    /\ failures' = <<>>
    /\ idx' = 1
    /\ mpc' = "loop"
    /\ UNCHANGED <<mode, cli, targets, optTarget, configDefault, att, task,
                   lockS, lockF, ret, exitCode, attemptLog>>
    /\ UNCHANGED cacheVars
    /\ UNCHANGED hashVars
    /\ UNCHANGED targetVars
    /\ UNCHANGED cmdVars

\* build_all: lines 230-237, the call of self.build for the next target
S_Call ==
    /\ mode = "build_all"
    /\ mpc = "loop"
    /\ idx <= Len(targets)
    /\ att' = [att EXCEPT ![idx] = enter_build(att[idx], Some(targets[idx]))]
    /\ attemptLog' = Append(attemptLog, idx)
    /\ mpc' = "in_build"
    /\ UNCHANGED <<mode, cli, targets, optTarget, configDefault, idx, task,
                   successes, failures, lockS, lockF, ret, exitCode>>
    /\ UNCHANGED cacheVars
    /\ UNCHANGED hashVars
    /\ UNCHANGED targetVars
    /\ UNCHANGED cmdVars

\* build_all that stops at the first failed target
S_Collect_abort ==
    /\ mode = "build_all"
    /\ mpc = "in_build"
    /\ Returned(att[idx])
    /\ IF att[idx].ph = "succeeded"
       THEN /\ successes' = Append(successes, targets[idx])
            /\ idx' = idx + 1
            /\ UNCHANGED failures
       ELSE /\ failures' = Append(failures, targets[idx])
            /\ idx' = Len(targets) + 1
            /\ UNCHANGED successes
    /\ mpc' = "loop"
    /\ UNCHANGED <<mode, cli, targets, optTarget, configDefault, att, task,
                   lockS, lockF, ret, exitCode, attemptLog>>
    /\ UNCHANGED cacheVars
    /\ UNCHANGED hashVars
    /\ UNCHANGED targetVars
    /\ UNCHANGED cmdVars

\* build_all: lines 237-243, the match on the result of self.build
S_Collect ==
    /\ mode = "build_all"
    /\ mpc = "in_build"
    /\ Returned(att[idx])
    /\ IF att[idx].ph = "succeeded"
       THEN /\ successes' = Append(successes, targets[idx])
            /\ UNCHANGED failures
       ELSE /\ failures' = Append(failures, targets[idx])
            /\ UNCHANGED successes
    /\ idx' = idx + 1
    /\ mpc' = "loop"
    /\ UNCHANGED <<mode, cli, targets, optTarget, configDefault, att, task,
                   lockS, lockF, ret, exitCode, attemptLog>>
    /\ UNCHANGED cacheVars
    /\ UNCHANGED hashVars
    /\ UNCHANGED targetVars
    /\ UNCHANGED cmdVars

\* build_all: lines 246-259
S_Summary ==
    /\ mode = "build_all"
    /\ mpc = "loop"
    /\ idx > Len(targets)
    /\ ret' = summary_result(failures)
    /\ mpc' = "returned"
    /\ UNCHANGED <<mode, cli, targets, optTarget, configDefault, idx, att, task,
                   successes, failures, lockS, lockF, exitCode, attemptLog>>
    /\ UNCHANGED cacheVars
    /\ UNCHANGED hashVars
    /\ UNCHANGED targetVars
    /\ UNCHANGED cmdVars

-----------------------------------------------------------------------------
(* Builder::build_all_parallel *)

\* a task before task::spawn_blocking
IdleTask == [pc |-> "unspawned", buf |-> <<>>, newErr |-> FALSE]

\* Mutex::lock taken without waiting for the holder
LockFree_unguarded(holder) == TRUE

\* Mutex::lock returns when no other thread holds the mutex
LockFree(holder) == holder = 0

\* the task has ended: its closure returned, or it panicked
Ended(t) == t.pc \in {"finished", "panicked"}

\* handle.await: Err(JoinError) for a task that panicked
join_result(t) == IF t.pc = "panicked" THEN "ErrJoin" ELSE "Ok"

\* build_all_parallel: lines 267-270
P_Begin ==
    /\ mode = "build_all_parallel"
    /\ mpc = "entry"
    /\ successes' = <<>>
    /\ failures' = <<>>
    /\ idx' = 1
    /\ mpc' = IF Len(targets) = 0 THEN "join" ELSE "spawn"
    /\ UNCHANGED <<mode, cli, targets, optTarget, configDefault, att, task,
                   lockS, lockF, ret, exitCode, attemptLog>>
    /\ UNCHANGED cacheVars
    /\ UNCHANGED hashVars
    /\ UNCHANGED targetVars
    /\ UNCHANGED cmdVars

\* build_all_parallel: lines 272-309, one iteration of the spawning loop
P_Spawn ==
    /\ mode = "build_all_parallel"
    /\ mpc = "spawn"
    /\ task' = [task EXCEPT ![idx].pc = "start"]
    /\ IF idx = Len(targets)
       THEN mpc' = "join" /\ idx' = 1
       ELSE mpc' = "spawn" /\ idx' = idx + 1
    /\ UNCHANGED <<mode, cli, targets, optTarget, configDefault, att,
                   successes, failures, lockS, lockF, ret, exitCode, attemptLog>>
    /\ UNCHANGED cacheVars
    /\ UNCHANGED hashVars
    /\ UNCHANGED targetVars
    /\ UNCHANGED cmdVars

\* the join loop that gives up the handle of a task still running
P_Join_nowait ==
    /\ mode = "build_all_parallel"
    /\ mpc = "join"
    /\ idx <= Len(targets)
    /\ IF join_result(task[idx]) = "Ok"
       THEN idx' = idx + 1 /\ UNCHANGED <<mpc, ret>>
       ELSE ret' = "ErrJoin" /\ mpc' = "returned" /\ UNCHANGED idx
    /\ UNCHANGED <<mode, cli, targets, optTarget, configDefault, att, task,
                   successes, failures, lockS, lockF, exitCode, attemptLog>>
    /\ UNCHANGED cacheVars
    /\ UNCHANGED hashVars
    /\ UNCHANGED targetVars
    /\ UNCHANGED cmdVars

\* build_all_parallel: lines 311-314, handle.await of the next handle and the ?
P_Join ==
    /\ mode = "build_all_parallel"
    /\ mpc = "join"
    /\ idx <= Len(targets)
    /\ Ended(task[idx])
    /\ IF join_result(task[idx]) = "Ok"
       THEN idx' = idx + 1 /\ UNCHANGED <<mpc, ret>>
       ELSE ret' = "ErrJoin" /\ mpc' = "returned" /\ UNCHANGED idx
    /\ UNCHANGED <<mode, cli, targets, optTarget, configDefault, att, task,
                   successes, failures, lockS, lockF, exitCode, attemptLog>>
    /\ UNCHANGED cacheVars
    /\ UNCHANGED hashVars
    /\ UNCHANGED targetVars
    /\ UNCHANGED cmdVars

\* build_all_parallel: lines 316-331
P_Summary ==
    /\ mode = "build_all_parallel"
    /\ mpc = "join"
    /\ idx > Len(targets)
    /\ LockFree(lockS)
    /\ LockFree(lockF)
    /\ ret' = summary_result(failures)
    /\ mpc' = "returned"
    /\ UNCHANGED <<mode, cli, targets, optTarget, configDefault, idx, att, task,
                   successes, failures, lockS, lockF, exitCode, attemptLog>>
    /\ UNCHANGED cacheVars
    /\ UNCHANGED hashVars
    /\ UNCHANGED targetVars
    /\ UNCHANGED cmdVars

\* the task: lines 281-282; println! panics when stdout cannot be written
T_Start(k) ==
    /\ task[k].pc = "start"
    /\ \E printed \in BOOLEAN :
           task' = [task EXCEPT ![k].pc = IF printed THEN "new" ELSE "panicked"]
    /\ UNCHANGED <<mode, cli, targets, optTarget, configDefault, mpc, idx, att,
                   successes, failures, lockS, lockF, ret, exitCode, attemptLog>>
    /\ UNCHANGED cacheVars
    /\ UNCHANGED hashVars
    /\ UNCHANGED targetVars
    /\ UNCHANGED cmdVars

\* the task whose Builder::new() error is returned to the caller of
\* build_all_parallel instead of being recorded
T_New_propagate(k) ==
    /\ task[k].pc = "new"
    /\ \E created \in BOOLEAN :
           IF created
           THEN /\ task' = [task EXCEPT ![k].pc = "building"]
                /\ att' = [att EXCEPT ![k] = enter_build(att[k], Some(targets[k]))]
                /\ UNCHANGED <<mpc, ret>>
           ELSE /\ task' = [task EXCEPT ![k].pc = "finished", ![k].newErr = TRUE]
                /\ mpc' = "returned"
                /\ ret' = "ErrBuilder"
                /\ UNCHANGED att
    /\ UNCHANGED <<mode, cli, targets, optTarget, configDefault, idx,
                   successes, failures, lockS, lockF, exitCode, attemptLog>>
    /\ UNCHANGED cacheVars
    /\ UNCHANGED hashVars
    /\ UNCHANGED targetVars
    /\ UNCHANGED cmdVars

\* the task: lines 285-295, Builder::new() and the call of builder.build
T_New(k) ==
    /\ task[k].pc = "new"
    /\ \E created \in BOOLEAN :
           IF created
           THEN /\ task' = [task EXCEPT ![k].pc = "building"]
                /\ att' = [att EXCEPT ![k] = enter_build(att[k], Some(targets[k]))]
           ELSE /\ task' = [task EXCEPT ![k].pc = "wantF", ![k].newErr = TRUE]
                /\ UNCHANGED att
    /\ UNCHANGED <<mode, cli, targets, optTarget, configDefault, mpc, idx,
                   successes, failures, lockS, lockF, ret, exitCode, attemptLog>>
    /\ UNCHANGED cacheVars
    /\ UNCHANGED hashVars
    /\ UNCHANGED targetVars
    /\ UNCHANGED cmdVars

\* the task waits for the failures mutex: lines 288 and 301
WantsF(k) ==
    \/ task[k].pc = "wantF"
    \/ task[k].pc = "building" /\ att[k].ph = "failed"

\* the task waits for the successes mutex: line 297
WantsS(k) == task[k].pc = "building" /\ att[k].ph = "succeeded"

\* the task: failures.lock().unwrap()
T_LockF(k) ==
    /\ WantsF(k)
    /\ LockFree(lockF)
    /\ lockF' = k
    /\ task' = [task EXCEPT ![k].pc = "holdF", ![k].buf = failures]
    /\ UNCHANGED <<mode, cli, targets, optTarget, configDefault, mpc, idx, att,
                   successes, failures, lockS, ret, exitCode, attemptLog>>
    /\ UNCHANGED cacheVars
    /\ UNCHANGED hashVars
    /\ UNCHANGED targetVars
    /\ UNCHANGED cmdVars

\* the task: failures.push(target.clone()), and the guard dropped at the end
T_PushF(k) ==
    /\ task[k].pc = "holdF"
    /\ failures' = Append(task[k].buf, targets[k])
    /\ lockF' = 0
    /\ task' = [task EXCEPT ![k].pc = "finished", ![k].buf = <<>>]
    /\ UNCHANGED <<mode, cli, targets, optTarget, configDefault, mpc, idx, att,
                   successes, lockS, ret, exitCode, attemptLog>>
    /\ UNCHANGED cacheVars
    /\ UNCHANGED hashVars
    /\ UNCHANGED targetVars
    /\ UNCHANGED cmdVars

\* the task: successes.lock().unwrap()
T_LockS(k) ==
    /\ WantsS(k)
    /\ LockFree(lockS)
    /\ lockS' = k
    /\ task' = [task EXCEPT ![k].pc = "holdS", ![k].buf = successes]
    /\ UNCHANGED <<mode, cli, targets, optTarget, configDefault, mpc, idx, att,
                   successes, failures, lockF, ret, exitCode, attemptLog>>
    /\ UNCHANGED cacheVars
    /\ UNCHANGED hashVars
    /\ UNCHANGED targetVars
    /\ UNCHANGED cmdVars

\* the task: successes.push(target.clone()), and the guard dropped at the end
T_PushS(k) ==
    /\ task[k].pc = "holdS"
    /\ successes' = Append(task[k].buf, targets[k])
    /\ lockS' = 0
    /\ task' = [task EXCEPT ![k].pc = "finished", ![k].buf = <<>>]
    /\ UNCHANGED <<mode, cli, targets, optTarget, configDefault, mpc, idx, att,
                   failures, lockF, ret, exitCode, attemptLog>>
    /\ UNCHANGED cacheVars
    /\ UNCHANGED hashVars
    /\ UNCHANGED targetVars
    /\ UNCHANGED cmdVars

-----------------------------------------------------------------------------
(* The orchestrator *)

\* the target lists of at most n entries
Lists(n) == UNION {[1..m -> BuildIds] : m \in 0..n}

\* a single build, from main or from a caller of the library
InitOne ==
    /\ mode = "build"
    /\ cli \in BOOLEAN
    /\ targets = <<>>
    /\ optTarget \in {NoneOpt} \cup {Some(t) : t \in BuildIds}
    /\ configDefault \in Lists(1)
    /\ att = <<IdleAttempt>>
    /\ task = <<>>

\* build_all, from main (--all: the configured default targets) or from a
\* caller of the library
InitAll ==
    /\ mode = "build_all"
    /\ cli \in BOOLEAN
    /\ optTarget = NoneOpt
    /\ \E l \in Lists(MaxTargets) :
           /\ targets = IF cli THEN <<>> ELSE l
           /\ configDefault = IF cli THEN l ELSE <<>>
           /\ att = [k \in 1..Len(l) |-> IdleAttempt]
    /\ task = <<>>

\* build_all_parallel, from a caller of the library
InitParallel ==
    /\ mode = "build_all_parallel"
    /\ cli = FALSE
    /\ optTarget = NoneOpt
    /\ configDefault = <<>>
    /\ targets \in Lists(MaxTargets)
    /\ att = [k \in 1..Len(targets) |-> IdleAttempt]
    /\ task = [k \in 1..Len(targets) |-> IdleTask]

InitBuild ==
    /\ CacheFresh
    /\ HashIdle
    /\ TargetIdle
    /\ CmdIdle
    /\ InitOne \/ InitAll \/ InitParallel
    /\ mpc = IF cli THEN "main" ELSE "entry"
    /\ idx = 0
    /\ successes = <<>>
    /\ failures = <<>>
    /\ lockS = 0
    /\ lockF = 0
    /\ ret = None
    /\ exitCode = Running
    /\ attemptLog = <<>>

NextBuild ==
    \/ M_Start
    \/ M_Exit
    \/ One_Call
    \/ One_Return
    \/ S_Begin
    \/ S_Call
    \/ S_Collect
    \/ S_Summary
    \/ P_Begin
    \/ P_Spawn
    \/ P_Join
    \/ P_Summary
    \/ \E k \in 1..Len(att) : B_Resolve(k)
    \/ \E k \in 1..Len(att) : B_Prepare(k)
    \/ \E k \in 1..Len(att) : B_Invoke(k)
    \/ \E k \in 1..Len(att) : B_Exit(k)
    \/ \E k \in 1..Len(task) : T_Start(k)
    \/ \E k \in 1..Len(task) : T_New(k)
    \/ \E k \in 1..Len(task) : T_LockF(k)
    \/ \E k \in 1..Len(task) : T_PushF(k)
    \/ \E k \in 1..Len(task) : T_LockS(k)
    \/ \E k \in 1..Len(task) : T_PushS(k)

SpecBuild == InitBuild /\ [][NextBuild]_vars

-----------------------------------------------------------------------------
(* Properties of the build cache *)

\* the three reasons to rebuild: no record, a failed record, another fingerprint
RebuildReason(m, t, h) ==
    \/ t \notin DOMAIN m
    \/ m[t].success = FALSE
    \/ m[t].source_hash # h

\* C1: every needs_rebuild(t, h) answers true if and only if the cache holds no
\* record for t, or the record of t has success = false, or its fingerprint
\* differs from h
C1_NeedsRebuildIff ==
    [][\A t \in CacheKeys, h \in Hashes :
          NeedsRebuild("a", t, h)
              => (lastQuery'.result <=> RebuildReason(entries["a"], t, h))]_vars

\* C1 witness: a query was answered "no rebuild" on a successful record of the
\* same fingerprint
C1_Witness ==
    /\ lastQuery.target \in DOMAIN entries["a"]
    /\ lastQuery.result = FALSE
    /\ entries["a"][lastQuery.target].success
    /\ entries["a"][lastQuery.target].source_hash = lastQuery.source_hash

\* needs_rebuild(t, g) is true for every fingerprint g
AlwaysRetried(m, t) == \A g \in Hashes : needs_rebuild(m, t, g)

\* C2: update(t, f, false) makes needs_rebuild(t, g) true for every g, and it
\* stays true through every step that is not an update(t, _, true)
C2_FailedAlwaysRetried ==
    [][\A t \in CacheKeys :
          /\ (\E h \in Hashes : Update("a", t, h, FALSE))
                 => AlwaysRetried(entries'["a"], t)
          /\ (AlwaysRetried(entries["a"], t)
              /\ ~(\E h \in Hashes : Update("a", t, h, TRUE)))
                 => AlwaysRetried(entries'["a"], t)]_vars

\* C2 witness: the cache holds a failed record of one target beside a later
\* successful record of the other target, and was saved in this state
C2_Witness ==
    \E t \in DOMAIN entries["a"], k \in DOMAIN entries["a"] :
        /\ ~entries["a"][t].success
        /\ entries["a"][k].success
        /\ entries["a"][k].timestamp > entries["a"][t].timestamp
        /\ AlwaysRetried(entries["a"], t)
        /\ store = JsonFile(ToJson(entries["a"]))

\* C3: update(t, h, s) leaves exactly the record {t, h, s} for t, whatever t had
\* before, and every other record as it was
C3_UpdateUpsert ==
    [][\A t \in CacheKeys, h \in Hashes, s \in BOOLEAN :
          Update("a", t, h, s) =>
              /\ DOMAIN entries'["a"] = (DOMAIN entries["a"]) \cup {t}
              /\ entries'["a"][t].target = t
              /\ entries'["a"][t].source_hash = h
              /\ entries'["a"][t].success = s
              /\ entries'["a"][t].timestamp = now
              /\ \A k \in (DOMAIN entries["a"]) \ {t} :
                     entries'["a"][k] = entries["a"][k]]_vars

\* C3 witness: a record written at time 1 beside a record written at time 0
C3_Witness ==
    \E t \in DOMAIN entries["a"], k \in DOMAIN entries["a"] :
        /\ t # k
        /\ entries["a"][t].timestamp = 1
        /\ entries["a"][k].timestamp = 0

-----------------------------------------------------------------------------
(* Properties of the orchestrator *)

\* how often x occurs in the sequence
Count(seq, x) == Cardinality({i \in 1..Len(seq) : seq[i] = x})

\* the attempt of position k did not succeed: build returned an error, the
\* task could not create its builder, or the task panicked
DidFail(k) ==
    \/ att[k].ph = "failed"
    \/ k \in 1..Len(task) /\ (task[k].newErr \/ task[k].pc = "panicked")

\* the positions of target t whose attempt failed, and those that succeeded
FailedAt(t) == {k \in 1..Len(targets) : targets[k] = t /\ DidFail(k)}
SucceededAt(t) ==
    {k \in 1..Len(targets) : targets[k] = t /\ att[k].ph = "succeeded"}

\* the name under which an attempt is recorded: the parsed triple
Recorded(k) ==
    \E i \in Inst :
        /\ Unwrap(att[k].target).triple \in DOMAIN entries[i]
        /\ entries[i][Unwrap(att[k].target).triple].success
               = (att[k].ph = "succeeded")

\* C4: once the entry point has returned, every build attempt that was made
\* for a parsed target has left a cache record of that target with its outcome
C4_AttemptRecorded ==
    ret # None =>
        \A k \in 1..Len(att) :
            (Returned(att[k]) /\ IsSome(att[k].target)) => Recorded(k)

InFlight(a) == a.ph \in {"pending", "parsed", "ready", "invoking"}

\* C7: build_all calls build for the positions 1, 2, ... in this order, each
\* once; an attempt begins only when all earlier ones have returned, so at most
\* one is in flight; and it returns only when every target was attempted,
\* whatever failed
C7_SequentialOrder ==
    mode = "build_all" =>
        /\ \A i \in 1..Len(attemptLog) : attemptLog[i] = i
        /\ Cardinality({k \in 1..Len(att) : InFlight(att[k])}) <= 1
        /\ \A k \in 1..Len(att) :
               att[k].ph # "idle" =>
                   /\ k <= Len(attemptLog)
                   /\ \A j \in 1..(k - 1) : Returned(att[j])
        /\ ret # None =>
               /\ Len(attemptLog) = Len(targets)
               /\ \A k \in 1..Len(targets) : Returned(att[k])

\* C7 witness: build_all returned after a failed first target and a second
\* target that was built
C7_Witness ==
    /\ mode = "build_all"
    /\ ret = "ErrSomeFailed"
    /\ Len(targets) = 2
    /\ att[1].ph = "failed"
    /\ att[2].ph = "succeeded"

\* C8: build_all_parallel has returned only when every spawned task has ended
C8_JoinBarrier ==
    (mode = "build_all_parallel" /\ ret # None)
        => \A k \in 1..Len(task) : Ended(task[k])

PhaseSteps ==
    { <<"idle", "pending">>, <<"pending", "parsed">>, <<"pending", "failed">>,
      <<"parsed", "ready">>, <<"parsed", "failed">>,
      <<"ready", "invoking">>, <<"ready", "failed">>,
      <<"invoking", "succeeded">>, <<"invoking", "failed">> }

\* C10: an attempt moves only forward through Pending (pending, parsed),
\* ToolchainReady (ready), Invoking and Succeeded or Failed; cargo is launched
\* only in an attempt whose preparation succeeded; an attempt whose preparation
\* failed is Failed with cargo never launched
C10_PhaseOrder ==
    [][\A k \in 1..Len(att) :
          /\ att'[k].ph # att[k].ph => <<att[k].ph, att'[k].ph>> \in PhaseSteps
          /\ att'[k].invoked => att'[k].prepared
          /\ att'[k].ph \in {"ready", "invoking", "succeeded"} => att'[k].prepared
          /\ (att[k].ph = "parsed" /\ att'[k].ph # "parsed" /\ ~att'[k].prepared)
                 => att'[k].ph = "failed"
          /\ (att'[k].ph = "failed" /\ ~att'[k].prepared)
                 => (~att'[k].invoked /\ att'[k].status = "none")
          /\ att[k].invoked => att'[k].invoked]_vars

\* C10 witness: one attempt failed in the preparation of a parsed target with
\* cargo not launched, another was prepared, launched cargo and succeeded
C10_Witness ==
    \E j, k \in 1..Len(att) :
        /\ att[j].ph = "failed"
        /\ IsSome(att[j].target)
        /\ ~att[j].prepared
        /\ ~att[j].invoked
        /\ att[k].ph = "succeeded"
        /\ att[k].prepared
        /\ att[k].invoked

-----------------------------------------------------------------------------
(* Properties of the target named by a build *)

\* C11: a build whose options name a target has, once past the parsing, the
\* target that the alias resolver gives for that name: the build of an alias is
\* attempted for the triple of the alias and not rejected by the parser
C11_AliasResolved ==
    \A k \in 1..Len(att) :
        (IsSome(att[k].opt) /\ att[k].ph \notin {"idle", "pending"})
            => \E host \in detect_host :
                   /\ IsSome(att[k].target)
                   /\ Unwrap(att[k].target).triple
                          = resolve_alias(Unwrap(att[k].opt), host).val

\* C12: an attempt whose cargo process exited non-zero or could not be launched
\* has failed with a build error that names the target triple of the attempt
C12_BuildErrorNamesTarget ==
    \A k \in 1..Len(att) :
        att[k].status \in {"nonzero", "unlaunchable"}
            => /\ att[k].ph = "failed"
               /\ IsSome(att[k].err)
               /\ Unwrap(att[k].err).kind = "Build"
               /\ Unwrap(att[k].err).named = Some(Unwrap(att[k].target).triple)

-----------------------------------------------------------------------------
(* Properties of the persisted cache *)

\* C13: clear and clear_target leave the file as it was and only save changes
\* it; clear removes every record of the instance and clear_target(t) the
\* record of t alone; a cache constructed on the directory afterwards holds
\* every record of the file
C13_ClearInMemoryOnly ==
    [][/\ (Clear("a") \/ \E t \in CacheKeys : ClearTarget("a", t)) => store' = store
       /\ store' # store => Save("a")
       /\ Clear("a") => entries'["a"] = EmptyMap
       /\ \A t \in CacheKeys :
              ClearTarget("a", t) =>
                  /\ DOMAIN entries'["a"] = (DOMAIN entries["a"]) \ {t}
                  /\ \A k \in DOMAIN entries'["a"] :
                         entries'["a"][k] = entries["a"][k]
       /\ \A i \in Inst :
              (made[i] = None /\ made'[i] = "Ok" /\ store.exists)
                  => ToJson(entries'[i]) = store.contents]_vars

\* C13 witness: the cache "a" holds a record of one target and no longer the
\* record of the other, which it saved before, and the cache "b" constructed
\* since on the directory holds the saved record
C13_Witness ==
    /\ made["a"] = "Ok"
    /\ made["b"] = "Ok"
    /\ \E t \in CacheKeys :
           /\ t \notin DOMAIN entries["a"]
           /\ entries["a"] # EmptyMap
           /\ t \in DOMAIN entries["b"]
           /\ <<t, entries["b"][t]>> \in store.contents
           /\ entries["b"][t].timestamp = now

\* the two record sets answer needs_rebuild alike for every target and fingerprint
SameAnswers(m1, m2) ==
    \A t \in CacheKeys, h \in Hashes :
        needs_rebuild(m1, t, h) = needs_rebuild(m2, t, h)

\* C14: the file written by save loads into exactly the records the saving
\* instance holds, and a cache constructed on the directory while the file is
\* the one the instance "a" saved holds the same targets, fingerprints,
\* timestamps and success flags as "a" and answers needs_rebuild as "a" does
C14_SaveLoadRoundTrip ==
    [][/\ Save("a") =>
              /\ load(EmptyMap, store').ok
              /\ load(EmptyMap, store').val = entries["a"]
       /\ (Construct("b") /\ made["a"] = "Ok" /\ made'["b"] # "ErrIo"
           /\ store = JsonFile(ToJson(entries["a"])))
              => /\ made'["b"] = "Ok"
                 /\ entries'["b"] = entries["a"]
                 /\ SameAnswers(entries'["b"], entries["a"])]_vars

\* C14 witness: "b" was constructed from the file "a" saved and both hold the
\* same two records, a failed one loaded from the earlier run and a
\* successful one written in this run
C14_Witness ==
    /\ made["a"] = "Ok"
    /\ made["b"] = "Ok"
    /\ store = JsonFile(ToJson(entries["a"]))
    /\ entries["b"] = entries["a"]
    /\ \E t, k \in DOMAIN entries["b"] :
           /\ entries["b"][t].timestamp = 0
           /\ ~entries["b"][t].success
           /\ entries["b"][k].timestamp = now
           /\ entries["b"][k].success
           /\ ~needs_rebuild(entries["b"], k, entries["a"][k].source_hash)

\* C15: a cache constructed on a directory whose cache file is missing or empty
\* is constructed successfully, holds no record, and needs a rebuild for every
\* target and fingerprint, as a cache that was never saved
C15_EmptyStoreIsFreshCache ==
    [][\A i \in Inst :
          (Construct(i) /\ made'[i] # "ErrIo" /\ store.text \in {"none", "empty"})
              => /\ made'[i] = "Ok"
                 /\ entries'[i] = EmptyMap
                 /\ \A t \in CacheKeys, h \in Hashes :
                        needs_rebuild(entries'[i], t, h)]_vars

\* C16: a cache constructed on a directory whose cache file exists and is not
\* the JSON of a map of cache entries is not constructed: with_cache_dir
\* returns the configuration error, no instance with an empty or partial record
\* set comes to exist, and the file is left as it was
C16_CorruptStoreFailsLoad ==
    [][\A i \in Inst :
          (Construct(i) /\ made'[i] # "ErrIo" /\ store.text \in {"empty", "garbage"})
              => /\ made'[i] = "ErrConfig"
                 /\ entries' = entries
                 /\ store' = store]_vars

\* C16 witness: both constructions on the directory with the unreadable file
\* have failed with the configuration error and the file is still there
C16_Witness ==
    /\ store = GarbageFile
    /\ made["a"] = "ErrConfig"
    /\ made["b"] = "ErrConfig"

-----------------------------------------------------------------------------
(* Properties of the fingerprints *)

\* the file can be hashed: its metadata and modification time can be read and
\* its path is valid UTF-8
Hashable(f) ==
    /\ f.meta # NoneOpt
    /\ Unwrap(f.meta).modified # NoneOpt
    /\ f.utf8

\* C17: hash_files returns a fingerprint if and only if every one of its paths
\* can be hashed, and the fingerprint it returns is the combination of the
\* hashes of all the paths in their order: never one of a part of the files
C17_HashFilesAllOrNothing ==
    (hcall = "hash_files" /\ hashed # NoneOpt)
        => /\ (Unwrap(hashed) # NoneOpt)
                  <=> (\A i \in 1..Len(paths) : Hashable(paths[i]))
           /\ (Unwrap(hashed) # NoneOpt)
                  => Unwrap(Unwrap(hashed))
                         = hash_combine([i \in 1..Len(paths) |->
                                            Unwrap(hash_file(paths[i]))])

\* C17 witness: hash_files returned no fingerprint for a file that can be
\* hashed followed by a file that does not exist
C17_Witness ==
    /\ hcall = "hash_files"
    /\ Len(paths) = 2
    /\ Hashable(paths[1])
    /\ paths[2].meta = NoneOpt
    /\ hashed = Some(NoneOpt)

\* the list in the opposite order
Reverse(seq) == [i \in 1..Len(seq) |-> seq[Len(seq) + 1 - i]]

\* C18: hash_combine of two different values is not hash_combine of the same
\* two values in the other order, and hash_combine of three of the values
\* 1, 2, 3 is not hash_combine of the reversed list when that is another list
C18_OrderSensitive ==
    (hcall = "hash_combine" /\ hashed # NoneOpt /\ Reverse(values) # values)
        => Unwrap(hashed) # hash_combine(Reverse(values))

\* the values from 0 to MaxValue
SmallValues == {U64(n) : n \in 0..MaxValue}

\* C18 as amended: the same for the calls whose values are all at most MaxValue
C18_OrderSensitiveSmall ==
    (/\ hcall = "hash_combine"
     /\ hashed # NoneOpt
     /\ Reverse(values) # values
     /\ \A i \in 1..Len(values) : values[i] \in SmallValues)
        => Unwrap(hashed) # hash_combine(Reverse(values))

\* C18 witness: hash_combine([1, 2, 3]) has returned 11093822460243
C18_Witness ==
    /\ hcall = "hash_combine"
    /\ values = <<U64(1), U64(2), U64(3)>>
    /\ hashed = Some(<<53587, 64344, 2582, 0>>)

-----------------------------------------------------------------------------
(* Properties of the parser of triples *)

\* the number of hyphens of the identifier
Hyphens(s) == Cardinality({i \in 1..Len(s) : s[i] = "-"})

\* C19: from_triple returns an error if and only if the identifier has fewer
\* than three components, that is fewer than two hyphens, the empty identifier
\* included, and the error is TargetNotFound naming the identifier
C19_FailsIffFewerThanThree ==
    fromTriple # NoneOpt
        => /\ Unwrap(fromTriple).ok <=> (Hyphens(ident) >= 2)
           /\ ~Unwrap(fromTriple).ok
                  => /\ Unwrap(fromTriple).kind = "TargetNotFound"
                     /\ Unwrap(fromTriple).named = Some(ident)

\* C19 witness: from_triple has returned the error for an identifier of two
\* components and for no other reason than their number
C19_Witness ==
    /\ Hyphens(ident) = 1
    /\ Len(ident) = 3
    /\ ident[2] = "-"
    /\ fromTriple = Some(Err("TargetNotFound", Some(ident)))

\* the string has no hyphen
Plain(s) == Hyphens(s) = 0

\* C20: the target that from_triple returns has an arch, a vendor and an os
\* without hyphen and an env that is absent exactly when the identifier has
\* three components, and the identifier is arch-vendor-os followed, if there is
\* an env, by a hyphen and the env
C20_TripleIsItsFields ==
    (fromTriple # NoneOpt /\ Unwrap(fromTriple).ok)
        => LET t == Unwrap(fromTriple).val IN
           /\ t.triple = ident
           /\ Plain(t.arch) /\ Plain(t.vendor) /\ Plain(t.os)
           /\ (t.env = NoneOpt) <=> (Hyphens(ident) = 2)
           /\ ident = t.arch \o <<"-">> \o t.vendor \o <<"-">> \o t.os
                      \o (IF t.env = NoneOpt THEN <<>> ELSE <<"-">> \o Unwrap(t.env))

\* C20 witness: an identifier of six components was parsed into an env of
\* three components
C20_Witness ==
    /\ ident = TLongEnv
    /\ fromTriple # NoneOpt
    /\ Unwrap(fromTriple).ok
    /\ Unwrap(fromTriple).val.env = Some(<<"g", "n", "u", "-", "n", "3", "2", "-", "t", "e", "s", "t">>)

\* a word occurs in a name at some position
OccursAt(name, word, i) ==
    /\ i + Len(word) - 1 <= Len(name)
    /\ \A j \in 1..Len(word) : name[i + j - 1] = word[j]

\* the name carries one of the markers of a specialized target
Marked(name) ==
    \/ \E i \in 1..Len(name) : OccursAt(name, <<"a", "n", "d", "r", "o", "i", "d">>, i)
    \/ \E i \in 1..Len(name) : OccursAt(name, <<"i", "o", "s">>, i)
    \/ OccursAt(name, <<"w", "a", "s", "m">>, 1)
    \/ OccursAt(name, <<"t", "h", "u", "m", "b">>, 1)
    \/ OccursAt(name, <<"r", "i", "s", "c", "v">>, 1)

\* the tier follows the fixed precedence for the name
TierRule(name, tier) ==
    /\ tier \in {"Native", "Specialized", "Container"}
    /\ tier = "Native" <=> name \in tier1
    /\ tier = "Specialized" <=> (name \notin tier1 /\ Marked(name))
    /\ Marked(name) => tier = "Specialized"

IsAlias(name) ==
    \/ \E e \in alias_table : e[1] = to_lowercase(name)
    \/ to_lowercase(name) = AliasMacos

\* C22: resolve_alias never returns an error; a name that is not one of the
\* aliases comes back unchanged, in its original case, and resolving the
\* result again gives the same result whatever the host probe answers.
C22_PassThroughIdempotent ==
    resolved # NoneOpt =>
        /\ Unwrap(resolved).ok
        /\ ~IsAlias(ident) =>
               /\ Unwrap(resolved).val = ident
               /\ \A h \in Hosts : resolve_alias(Unwrap(resolved).val, h) = Unwrap(resolved)

\* a name with capital letters that is not an alias was resolved to itself
C22_Witness ==
    /\ ident \in CapitalNames
    /\ ~IsAlias(ident)
    /\ to_lowercase(ident) # ident
    /\ resolved = Some(Ok(ident))

\* the host probe succeeded and reported an aarch64 darwin host
ArmDarwin(h) == h.ok /\ h.val.arch = ArchAarch64 /\ h.val.os = OsDarwin

\* C23: "macos" resolves to aarch64-apple-darwin exactly when the host probe
\* succeeded and reported arch aarch64 and os darwin; in every other case, a
\* failed probe included, it resolves to x86_64-apple-darwin, and the result
\* is a success.
C23_MacosFollowsHost ==
    (resolved # NoneOpt /\ to_lowercase(ident) = AliasMacos) =>
        /\ Unwrap(resolved).ok
        /\ probe # NoneOpt
        /\ Unwrap(resolved).val = TMacArm <=> ArmDarwin(Unwrap(probe))
        /\ ~ArmDarwin(Unwrap(probe)) => Unwrap(resolved).val = TMacIntel

\* "macos" was resolved to the Intel triple after the host probe failed
C23_Witness ==
    /\ ident = AliasMacos
    /\ probe = Some(Err("Toolchain", NoneOpt))
    /\ resolved = Some(Ok(TMacIntel))

\* C29: every alias resolves to a triple that from_triple accepts: resolving
\* an alias and parsing the result never ends in a parse error.
C29_AliasesParse ==
    (IsAlias(ident) /\ fromTriple # NoneOpt) => Unwrap(fromTriple).ok

\* C24: `xcargo build --all` builds the configured targets through the
\* concurrent fan-out: when the command's build call has returned, one task
\* had been spawned for each target.
C24_AllIsParallel ==
    (cli /\ mode # "build" /\ ret # None) =>
        (Len(targets) > 0 /\ Len(task) = Len(targets))

\* C25: the result of an attempt whose cargo process was launched is
\* determined by the exit status alone: a success status makes build return
\* success, whatever the target's OS and the outcome of the host probes.
C25_SuccessStatusIsSuccess ==
    \A k \in 1..Len(att) : att[k].status = "success" => att[k].ph = "succeeded"

\* the attempt went on with the name t: it holds the target parsed from t, or
\* it failed on the parse error of t before anything was prepared or invoked
ChoseTriple(a, t) ==
    IF from_triple(t).ok
    THEN a.target = Some(from_triple(t).val)
    ELSE /\ a.target = NoneOpt
         /\ a.ph = "failed"
         /\ a.err = Some(from_triple(t))
         /\ ~a.prepared
         /\ ~a.invoked

\* the attempt failed on the host probe before anything was prepared or invoked
FailedOnHost(a) ==
    /\ a.target = NoneOpt
    /\ a.ph = "failed"
    /\ a.err = Some(Err("Toolchain", NoneOpt))
    /\ ~a.prepared
    /\ ~a.invoked

\* C26: a build takes options.target if present, otherwise the first
\* configured default target if there is one, otherwise the detected host
\* triple; in that last case a failed host detection fails the build before
\* anything is prepared or invoked.
C26_TargetPrecedence ==
    \A k \in 1..Len(att) :
        att[k].ph \notin {"idle", "pending"} =>
            IF IsSome(att[k].opt) THEN ChoseTriple(att[k], Unwrap(att[k].opt))
            ELSE IF Len(configDefault) > 0 THEN ChoseTriple(att[k], configDefault[1])
            ELSE ChoseTriple(att[k], HostTriple) \/ FailedOnHost(att[k])

\* options.target and a different configured default were both present, and
\* the build went on with options.target
C26_Witness ==
    /\ mode = "build"
    /\ att[1].opt = Some(TWindows)
    /\ configDefault = <<TLinux>>
    /\ att[1].target # NoneOpt
    /\ Unwrap(att[1].target).triple = TWindows

\* how often an argument occurs in a list
Occurrences(list, arg) == Cardinality({i \in DOMAIN list : list[i] = arg})

\* C27: whatever the caller's verbose option and the configured cargo flags,
\* the argument list holds --verbose at most once. It is stated for callers
\* that pass no --verbose of their own and configurations that name it at
\* most once.
C27_VerboseAtMostOnce ==
    (/\ cmd # NoneOpt
     /\ Occurrences(options.cargo_args, ArgVerbose) = 0
     /\ Occurrences(cargo_flags, ArgVerbose) <= 1) =>
        Occurrences(Unwrap(cmd), ArgVerbose) <= 1

\* the argument list is head, --target, the triple, the optional --release,
\* the optional --verbose, the configured flags (with or without their
\* --verbose), and the caller's arguments, in this order
ComposedAfter(head) ==
    \E verbose \in {<<>>, <<ArgVerbose>>},
       configured \in {cargo_flags,
                       SelectSeq(cargo_flags, LAMBDA flag : flag # ArgVerbose)} :
        Unwrap(cmd) =
            head \o <<ArgTarget, Unwrap(options.target)>>
                 \o (IF options.release THEN <<ArgRelease>> ELSE <<>>)
                 \o verbose \o configured \o options.cargo_args

\* the toolchain override argument, present only when the caller named one
Override ==
    IF IsSome(options.toolchain)
    THEN << <<"+">> \o Unwrap(options.toolchain) >>
    ELSE <<>>

\* C28 as stated: the subcommand comes first and the toolchain override after
\* it, then --target and the triple, --release, --verbose, the configured
\* flags and the caller's arguments.
C28_SubcommandFirst ==
    cmd # NoneOpt => ComposedAfter(<<ArgBuild>> \o Override)

\* C28, amended: the toolchain override comes first and the subcommand after
\* it, then --target and the triple, --release, --verbose, the configured
\* flags and the caller's arguments.
C28_OverrideFirst ==
    cmd # NoneOpt => ComposedAfter(Override \o <<ArgBuild>>)

\* a command with every optional part was assembled, the override in front
C28_Witness ==
    /\ cmd # NoneOpt
    /\ options.toolchain = Some(TcNightly)
    /\ options.release
    /\ options.verbose
    /\ Len(cargo_flags) > 0
    /\ Len(options.cargo_args) > 0
    /\ Unwrap(cmd)[1] = <<"+">> \o TcNightly
    /\ Unwrap(cmd)[2] = ArgBuild

\* C30: save replaces the whole file with the records of the saving instance
\* and merges nothing: after a save the file holds exactly the saver's records,
\* and a record another instance holds for a target, which the saver does not
\* hold, is not in the file, whether or not it was there before.
C30_SaveReplacesStore ==
    [][\A i \in Inst :
          Save(i) =>
              /\ store'.contents = ToJson(entries[i])
              /\ \A j \in Inst \ {i} :
                     \A t \in DOMAIN entries[j] :
                         (t \notin DOMAIN entries[i] \/ entries[i][t] # entries[j][t])
                             => <<t, entries[j][t]>> \notin store'.contents]_vars

\* C30 witness: "a" and "b" each updated its own target in this run; the
\* reader "c" loaded the update of "b" from the file, so "b" had saved it; the
\* file is now the one "a" saved, with the update of "a" and without that of "b"
C30_Witness ==
    /\ made["a"] = "Ok"
    /\ made["b"] = "Ok"
    /\ made["c"] = "Ok"
    /\ TWindows \in DOMAIN entries["b"]
    /\ entries["b"][TWindows].timestamp = now
    /\ TWindows \in DOMAIN entries["c"]
    /\ entries["c"][TWindows] = entries["b"][TWindows]
    /\ TLinux \in DOMAIN entries["a"]
    /\ entries["a"][TLinux].timestamp = now
    /\ store = JsonFile(ToJson(entries["a"]))
    /\ TWindows \notin DOMAIN entries["a"]
    /\ \A r \in store.contents : r[1] # TWindows

====
